---- MODULE Spec2Model ----
(***************************************************************************)
(* A model of ZeddyBot (src/main/zeddybot.py, src/tools/token_utils.py):   *)
(*   - TwitchChatBot: the chat transport (connect, is_connected,           *)
(*     send_message, check_for_ping) over one raw socket;                  *)
(*   - StreamNotificationManager.get_notifications: the stream poller;     *)
(*   - refresh_twitch_bot_token and its callers, validate_bot_token: the   *)
(*     bot token lifecycle;                                                *)
(*   - DashboardData.parse_chat_messages: the chat history;                *)
(*   - the periodic tasks started by on_ready.                             *)
(* Each component has its own specifications (SpecChat, SpecPoll...,       *)
(* SpecToken, SpecTokenRace, SpecHistory) over the shared variables.       *)
(***************************************************************************)
EXTENDS Integers, Sequences, FiniteSets, TLC

VARIABLES
    \* TwitchChatBot
    chat,           \* [connected, sock]: self.connected and the state of self.socket
    lastChat,       \* history: the last top-level call on the transport and what it did
    conn,           \* thread -> [pc, n]: its position inside connect(), and its calls so far
    \* StreamNotificationManager
    watchlist,      \* Config.watchlist: the watched names, as config.json spells them
    online_users,   \* self.online_users: a dict, name -> None (<<>>) or a start time (<<t>>)
    last,           \* history: the last get_notifications() call (inputs, outcome, result)
    prev,           \* history: the get_notifications() call before the last one
    focus,          \* history: the name that the next four variables follow
    everAnnounced,  \* history: the start times returned as a notification for focus so far
    sinceAbsent,    \* history: the ones returned since focus was last recorded None
    dupEver,        \* history: a (focus, startedAt) pair was returned twice
    repeat,         \* history: what became of a pair got again with no None recorded in between
    run,            \* history: name -> the current run of consecutive polls with one startedAt
    active,         \* executions of the check_twitch_online_streamers body in progress
    skipped,        \* history: "pending" once a tick returned before get_notifications,
                    \* "polled" when the last poll was the first one after such ticks
    scen,           \* history: progress of the alice/bob example scenario from a fresh process
    \* bot credentials
    file,           \* config.json: the persisted credentials
    config,         \* Config.data of the bot process (read by TwitchChatBot and TwitchAPI)
    dashcfg,        \* DashboardData.config (reloaded by the dashboard routes)
    idp,            \* the identity provider: the generation of the refresh token it accepts
    lastTok,        \* history: the last token operation and its result
    thr,            \* the refresh_twitch_bot_token call in progress in each thread
    \* the periodic tasks of ZeddyBot
    loops,          \* name -> "idle" (never started), "running" or "failed"
    \* DashboardData and the token tools
    chat_messages,  \* DashboardData.chat_messages: a deque(maxlen=100) of message_data
    arrived,        \* history: how many messages were appended to chat_messages so far
    lastParse,      \* history: the last parse_chat_messages() call and what it did
    lastVal         \* history: the last validate_bot_token() call and its result

chatVars == <<chat, lastChat, conn>>
pollVars == <<watchlist, active, skipped, online_users, last, prev, focus, everAnnounced, sinceAbsent,
              dupEver, repeat, run, scen>>
tokVars  == <<file, config, dashcfg, idp, lastTok, thr>>
dashVars == <<chat_messages, arrived, lastParse, lastVal>>
vars     == <<chatVars, pollVars, tokVars, loops, dashVars>>

(***************************************************************************)
(* Bounds of the model.                                                    *)
(***************************************************************************)
MaxOps    == 10   \* socket operations of one call that the environment may fail
MaxFails  == 2    \* how many of them fail in one call
MaxConnects == 3  \* connect() calls of one thread that are followed step by step
MaxTime   == 2    \* clock values and stream start times are 0..MaxTime / 1..MaxTime
MaxGrants == 3    \* token generations the identity provider hands out
MaxLines  == 2    \* IRC lines in one chunk handed to parse_chat_messages
MaxMsgs   == 103  \* chat lines received in all

(***************************************************************************)
(* The periodic tasks (discord.ext.tasks loops) that on_ready starts.      *)
(***************************************************************************)
\* on_ready, lines 963-966: the loops in the order they are started
LoopOrder == <<"update_token_task", "update_bot_token_task",
               "check_twitch_online_streamers", "check_twitch_ping">>
LoopNames == {LoopOrder[i] : i \in DOMAIN LoopOrder}

\* the exceptions after which a loop runs its body again (OSError and its
\* subclasses, as the requests exceptions are); any other exception ends it
Retried == {"ConnectionError"}

\* a loop after its body returned ("") or raised exc
LoopAfter(exc) == IF exc = "" \/ exc \in Retried THEN "running" ELSE "failed"

\* Loop.start() for each loop in turn: starting a running loop raises
\* RuntimeError, which ends on_ready there
RECURSIVE StartLoops(_, _)
StartLoops(l, i) ==
    IF i > Len(LoopOrder) THEN [loops |-> l, raised |-> FALSE]
    ELSE IF l[LoopOrder[i]] = "running" THEN [loops |-> l, raised |-> TRUE]
    ELSE StartLoops([l EXCEPT ![LoopOrder[i]] = "running"], i + 1)

Idle    == [n \in LoopNames |-> "idle"]
Started == [n \in LoopNames |-> "running"]

(***************************************************************************)
(* TwitchChatBot.  The environment of one top-level call is F, the set of  *)
(* positions (1st, 2nd, ... socket operation of the call) at which the     *)
(* socket operation fails; every other operation succeeds.  A call threads *)
(* st = [connected, sock, i, log]: i counts the socket operations done,    *)
(* log lists what the call did, in order.                                  *)
(***************************************************************************)
FailSets == {F \in SUBSET (1..MaxOps) : Cardinality(F) <= MaxFails}

ConfirmMsg == "Operational status: Online."
LiveMsg    == "Stream is now live"
UserMsg    == "hello"

Ev(k, f, m) == [k |-> k, f |-> f, m |-> m]

\* the next socket operation of the call fails
Fails(st, F) == (st.i + 1) \in F

\* one socket operation done, logged as event e
Did(st, e) == [st EXCEPT !.i = @ + 1, !.log = Append(@, e)]

Ret(st, r) == [st |-> st, ret |-> r]

\* socket.send(frame): the state after a successful write
Wrote(st, f, m) == Did(st, Ev("write", f, m))

\* socket.send(frame) raising BrokenPipeError / socket.error / OSError
WriteFailed(st, f, m) == Did(st, Ev("writefail", f, m))

RECURSIVE connect(_, _), send_message(_, _, _)

\* connect(), lines 194-200: close any existing socket and create a new one;
\* self.connected is left as it was
NewSocket(st) == [st EXCEPT !.sock = "new", !.log = Append(@, Ev("connect", "", ""))]

\* connect(), lines 211-214: the welcome acknowledgment was read from the socket
Welcomed(st) == [st EXCEPT !.connected = TRUE, !.sock = "joined"]

\* connect(), line 218: the result after the confirmation message was handed to
\* send_message, whose own result is dropped
ConnectedResult(sent) == TRUE

\* is_connected(): False without a write when not connected or no socket; else
\* a PING write, whose failure marks the transport disconnected
is_connected_keepFlag(st, F) ==
    IF ~st.connected \/ st.sock = "none" THEN Ret(st, FALSE)
    ELSE IF Fails(st, F) THEN Ret(WriteFailed(st, "PING", ""), FALSE)
         ELSE Ret(Wrote(st, "PING", ""), TRUE)

is_connected(st, F) ==
    IF ~st.connected \/ st.sock = "none" THEN Ret(st, FALSE)
    ELSE IF Fails(st, F)
         THEN Ret([WriteFailed(st, "PING", "") EXCEPT !.connected = FALSE], FALSE)
         ELSE Ret(Wrote(st, "PING", ""), TRUE)

connect(st, F) ==
    LET s0 == NewSocket(st) IN
    IF Fails(s0, F) THEN Ret(Did(s0, Ev("tcpfail", "", "")), FALSE)
    ELSE LET s1 == Did(s0, Ev("tcp", "", "")) IN
    IF Fails(s1, F) THEN Ret(WriteFailed(s1, "PASS", ""), FALSE)
    ELSE LET s2 == Wrote(s1, "PASS", "") IN
    IF Fails(s2, F) THEN Ret(WriteFailed(s2, "NICK", ""), FALSE)
    ELSE LET s3 == Wrote(s2, "NICK", "") IN
    IF Fails(s3, F) THEN Ret(WriteFailed(s3, "JOIN", ""), FALSE)
    ELSE LET s4 == Wrote(s3, "JOIN", "") IN
    \* recv: a timeout, a socket error or a response without the welcome
    IF Fails(s4, F) THEN Ret(Did(s4, Ev("recvfail", "", "")), FALSE)
    ELSE LET s5 == Welcomed(Did(s4, Ev("recv", "", "")))
             r  == send_message(s5, ConfirmMsg, F)
         IN  Ret(r.st, ConnectedResult(r.ret))

\* send_message(), lines 292-323: the handler of a failed probe or write
ReconnectAndResend_noResend(st, msg, F) ==
    LET c == connect([st EXCEPT !.connected = FALSE], F) IN Ret(c.st, c.ret)
ReconnectAndResend(st, msg, F) ==
    LET s0 == [st EXCEPT !.connected = FALSE]
        c  == connect(s0, F)
    IN  IF c.ret
        THEN IF Fails(c.st, F)
             THEN Ret(WriteFailed(c.st, "PRIVMSG", msg), FALSE)
             ELSE Ret(Wrote(c.st, "PRIVMSG", msg), TRUE)
        ELSE Ret(c.st, FALSE)

send_message(st, msg, F) ==
    LET c == IF ~st.connected THEN connect(st, F) ELSE Ret(st, TRUE) IN
    IF ~c.ret THEN Ret(c.st, FALSE)
    ELSE LET p == is_connected(c.st, F) IN
         IF ~p.ret THEN ReconnectAndResend(p.st, msg, F)
         ELSE IF Fails(p.st, F)
              THEN ReconnectAndResend(WriteFailed(p.st, "PRIVMSG", msg), msg, F)
              ELSE Ret(Wrote(p.st, "PRIVMSG", msg), TRUE)

\* what recv(2048) gives check_for_ping on the non-blocking socket: nothing
\* (BlockingIOError), a socket error, or a buffer of lines; the buffer is
\* "undecodable" when its bytes are not valid UTF-8 as a whole, as when the
\* 2048-byte read before it ended inside a multi-byte character of a chat line
Lines == {"PING :tmi.twitch.tv", ":u!u@u PRIVMSG #c :hi"}
Buffers == {<<l>> : l \in Lines} \cup {<<l1, l2>> : l1 \in Lines, l2 \in Lines}
ReadResults ==
    {[kind |-> "nodata", lines |-> <<>>], [kind |-> "error", lines |-> <<>>]}
    \cup {[kind |-> k, lines |-> b] : k \in {"data", "undecodable"}, b \in Buffers}

IsPing(line) == line = "PING :tmi.twitch.tv"

RECURSIVE AnswerPings(_, _, _, _)
\* check_for_ping(), lines 373-383: a PONG for each line that starts with PING; a
\* failed write is a socket.error, which ends the loop and clears self.connected
AnswerPings(st, lines, k, F) ==
    IF k > Len(lines) THEN st
    ELSE IF ~IsPing(lines[k]) THEN AnswerPings(st, lines, k + 1, F)
    ELSE IF Fails(st, F) THEN [WriteFailed(st, "PONG", "") EXCEPT !.connected = FALSE]
    ELSE AnswerPings(Wrote(st, "PONG", ""), lines, k + 1, F)

\* line 370: recv(2048).decode("utf-8") is strict, and its UnicodeDecodeError is
\* caught by the outer handler (lines 384-386), which only prints
check_for_ping(st, rd, F) ==
    IF ~st.connected \/ st.sock = "none" THEN st
    ELSE IF rd.kind = "nodata" THEN st
    ELSE IF rd.kind = "error" THEN [st EXCEPT !.connected = FALSE]
    ELSE IF rd.kind = "undecodable" THEN st
    ELSE AnswerPings(st, rd.lines, 1, F)

\* a top-level call starts with no operation done and an empty log
Call(c) == [connected |-> c.connected, sock |-> c.sock, i |-> 0, log |-> <<>>]
After(st) == [connected |-> st.connected, sock |-> st.sock]

\* Config.twitch_chat_token (lines 64-66): read from the in-memory dict
twitch_chat_token(c) == c.bot_access

\* the token carried by the PASS frames a call wrote: none, or the chat token of
\* the bot's Config; granted is the latest token the provider had issued by then
PassOf(log) ==
    IF \E j \in DOMAIN log : log[j] = Ev("write", "PASS", "")
    THEN <<twitch_chat_token(config)>> ELSE <<>>

Done(op, msg, r) ==
    LET log == r.st.log IN
    [op |-> op, msg |-> msg, pre |-> chat, log |-> log, ret |-> r.ret,
     pass |-> PassOf(log), granted |-> idp.bot, read |-> <<>>]

ChatAt(c) ==
    /\ chat = c
    /\ conn = [t \in {"bot", "flask"} |-> [pc |-> "idle", n |-> 0]]
    /\ lastChat = [op |-> "none", msg |-> "", pre |-> chat, log |-> <<>>, ret |-> FALSE,
                   pass |-> <<>>, granted |-> 0, read |-> <<>>]

\* TwitchChatBot.__init__
InitChat == ChatAt([connected |-> FALSE, sock |-> "none"])

\* the transport after the connect() of on_ready failed
InitChatStarted == ChatAt([connected |-> FALSE, sock |-> "new"])

\* send_message called by the dashboard route /api/send_chat (served from the
\* start of the process) or a Discord command
SendChat ==
    \E F \in FailSets :
    \E r \in {send_message(Call(chat), UserMsg, F)} :
        /\ chat' = After(r.st)
        /\ lastChat' = Done("send_message", UserMsg, r)
        /\ UNCHANGED <<conn, dashVars, pollVars, tokVars, loops>>

\* on_ready (lines 956-968): starts the loops, then calls connect() whatever the
\* transport's state; Discord may fire on_ready again, and then starting a loop
\* that still runs raises before connect() is reached
OnReady ==
    \E F \in FailSets :
        LET s == StartLoops(loops, 1)
            r == IF s.raised THEN Ret(Call(chat), FALSE) ELSE connect(Call(chat), F)
        IN  /\ loops' = s.loops
            /\ chat' = After(r.st)
            /\ lastChat' = Done(IF s.raised THEN "on_ready" ELSE "connect", "", r)
            /\ UNCHANGED <<conn, dashVars, pollVars, tokVars>>

\* check_twitch_ping (lines 1168-1178): the 2-minute keep-alive task
KeepAlive_noReconnect(F, rd) ==
    \E p \in {is_connected(Call(chat), F)} :
    \E r \in {IF ~p.ret THEN Ret(p.st, FALSE)
               ELSE Ret(check_for_ping(p.st, rd, F), TRUE)} :
        /\ chat' = After(r.st)
        /\ lastChat' = [Done("check_twitch_ping", "", r) EXCEPT
                            !.read = IF p.ret THEN rd.lines ELSE <<>>]
        /\ UNCHANGED <<conn, dashVars, pollVars, tokVars, loops>>

\* the body of the task, with the socket operations in F failing and rd read
KeepAlive(F, rd) ==
    \E p \in {is_connected(Call(chat), F)} :
    \E r \in {IF ~p.ret THEN connect(p.st, F)
               ELSE Ret(check_for_ping(p.st, rd, F), TRUE)} :
        /\ chat' = After(r.st)
        /\ lastChat' = [Done("check_twitch_ping", "", r) EXCEPT
                            !.read = IF p.ret THEN rd.lines ELSE <<>>]
        /\ UNCHANGED <<conn, dashVars, pollVars, tokVars, loops>>

\* recv is reached only when the probe passed (line 1178)
NoData == [kind |-> "nodata", lines |-> <<>>]
ReadsAfter(p) == IF p.ret THEN ReadResults ELSE {NoData}

CheckTwitchPing ==
    /\ loops["check_twitch_ping"] = "running"
    /\ \E F \in FailSets :
       \E rd \in ReadsAfter(is_connected(Call(chat), F)) : KeepAlive(F, rd)

\* a run of the keep-alive task while the server is healthy: no socket operation
\* fails and nothing is waiting to be read
HealthyKeepAlive ==
    /\ loops["check_twitch_ping"] = "running"
    /\ KeepAlive({}, NoData)

NextChat == SendChat \/ OnReady \/ CheckTwitchPing

(***************************************************************************)
(* connect() step by step.  The Flask server thread runs the routes while  *)
(* the Discord event loop runs the tasks, and TwitchChatBot holds no lock, *)
(* so the socket operations of two connect() calls can interleave.         *)
(***************************************************************************)
\* the call sites: check_twitch_ping (line 1171) calls connect() when
\* is_connected() is False, send_message (line 261) when self.connected is False
CallsConnect(t, c, probeFails) ==
    IF t = "bot" THEN ~c.connected \/ c.sock = "none" \/ probeFails
    ELSE ~c.connected

\* lines 192-202: the thread enters connect(), closes the socket that is there
\* and opens a new one; a probe that failed has cleared self.connected
ConnectOpen(t) ==
    \E probeFails \in BOOLEAN :
        /\ conn[t].pc = "idle"
        /\ conn[t].n < MaxConnects
        /\ CallsConnect(t, chat, probeFails)
        /\ chat' = [connected |-> IF t = "bot" THEN FALSE ELSE chat.connected,
                    sock |-> "new"]
        /\ conn' = [conn EXCEPT ![t] = [pc |-> "opened", n |-> @.n + 1]]
        /\ UNCHANGED <<lastChat, dashVars, pollVars, tokVars, loops>>

\* lines 205-207: PASS, NICK and JOIN are written to self.socket; a write that
\* raises ends the call at line 226
ConnectAuthenticate(t) ==
    \E ok \in BOOLEAN :
        /\ conn[t].pc = "opened"
        /\ conn' = [conn EXCEPT ![t].pc = IF ok THEN "sent" ELSE "idle"]
        /\ UNCHANGED <<chat, lastChat, dashVars, pollVars, tokVars, loops>>

\* lines 210-221: the response is read; on the welcome self.connected is set
\* and the call returns after its confirmation message
ConnectWelcome(t) ==
    \E ok \in BOOLEAN :
        /\ conn[t].pc = "sent"
        /\ chat' = IF ok THEN [connected |-> TRUE, sock |-> "joined"] ELSE chat
        /\ conn' = [conn EXCEPT ![t].pc = "idle"]
        /\ UNCHANGED <<lastChat, dashVars, pollVars, tokVars, loops>>

NextConnect ==
    \E t \in {"bot", "flask"} :
        ConnectOpen(t) \/ ConnectAuthenticate(t) \/ ConnectWelcome(t)


(***************************************************************************)
(* StreamNotificationManager.  A start time is a number of 1..MaxTime; the *)
(* started_at string of an entry is given by the number it parses to, and  *)
(* 0 stands for a string that does not match "%Y-%m-%dT%H:%M:%SZ".  The    *)
(* clock is an input of the call: datetime.now is read only for a name not *)
(* yet in the dict.                                                        *)
(***************************************************************************)
Watchlist     == watchlist
TargetChannel == "Alice"
Names         == {Watchlist[i] : i \in DOMAIN Watchlist}
Logins        == {"alice", "bob"}
Times         == 1..MaxTime
RawTimes      == 0..MaxTime
Clock         == 0..MaxTime

\* str.lower()
Lower(s) == CASE s = "Alice" -> "alice" [] s = "Bob" -> "bob" [] OTHER -> s

\* get_streams(): a dict user_login -> entry, holding the live users only
StreamResults == UNION {[S -> RawTimes] : S \in SUBSET Logins}

\* what makes get_users / get_streams raise: the request itself (a requests
\* ConnectionError) or a body without "data" (KeyError), as a 401 answer has
LookupErrors == {"users:ConnectionError", "users:KeyError",
                 "streams:ConnectionError", "streams:KeyError"}

\* get_notifications(), lines 401-402: neither lookup is guarded, so what it
\* raises leaves get_notifications; "" is a normal return
Propagated(e) ==
    CASE e \in {"users:ConnectionError", "streams:ConnectionError"} -> "ConnectionError"
      [] e \in {"users:KeyError", "streams:KeyError"} -> "KeyError"
      [] OTHER -> ""

\* get_notifications(), lines 401-402: the dict after a lookup raised
OnLookupError_offline(online) == [u \in DOMAIN online |-> <<>>]
OnLookupError(online) == online

\* datetime.strptime(started_at, "%Y-%m-%dT%H:%M:%SZ"): <<t>>, or <<>> for ValueError
strptime(raw) == IF raw \in Times THEN <<raw>> ELSE <<>>

\* lines 406-407: a name not yet in the dict is recorded at the current time
FirstSeen_unknown(online, u, clk) ==
    IF u \in DOMAIN online THEN online ELSE online @@ (u :> <<>>)
FirstSeen(online, u, clk) ==
    IF u \in DOMAIN online THEN online ELSE online @@ (u :> <<clk>>)

\* lines 409-410: a name absent from the live results is recorded None
RecordAbsent(online, u) == [online EXCEPT ![u] = <<>>]

\* line 413: None recorded, or a start time strictly later than the recorded one
IsNewSession_notEarlier(rec, started) == rec = <<>> \/ started >= rec[1]
IsNewSession(rec, started) == rec = <<>> \/ started > rec[1]

\* line 415
RecordLive_keep(online, u, started) == online
RecordLive(online, u, started) == [online EXCEPT ![u] = <<started>>]

\* line 418: the notified name is the bot's own channel
IsTargetChannel_exact(u) == u = TargetChannel
IsTargetChannel(u) == Lower(u) = Lower(TargetChannel)

\* line 414: notifications.append(streams[user_name])
AddNotification_front(ns, u) == <<u>> \o ns

AddNotification(ns, u) == Append(ns, u)

\* acc = [online, notifications, cst, sends, raised, k]: the dict, the list being
\* built, the chat transport, the send_message calls made, what the loop has
\* raised, and the number of names the loop has finished
RECURSIVE PollLoop(_, _, _, _, _)
PollLoop(i, acc, streams, clk, F) ==
    IF i > Len(Watchlist) THEN acc
    ELSE
    LET u  == Watchlist[i]
        o1 == FirstSeen(acc.online, u, clk)
    IN  IF u \notin DOMAIN streams
        THEN PollLoop(i + 1, [acc EXCEPT !.online = RecordAbsent(o1, u), !.k = i],
                      streams, clk, F)
        ELSE
        LET parsed == strptime(streams[u]) IN
        IF parsed = <<>>
        THEN [acc EXCEPT !.online = o1, !.raised = "ValueError"]
        ELSE IF IsNewSession(o1[u], parsed[1])
        THEN LET sent == IF IsTargetChannel(u)
                         THEN send_message(acc.cst, LiveMsg, F)
                         ELSE Ret(acc.cst, FALSE)
             IN  PollLoop(i + 1,
                    [acc EXCEPT !.online = RecordLive(o1, u, parsed[1]),
                                !.notifications = AddNotification(@, u),
                                !.cst = sent.st,
                                !.sends = @ + (IF IsTargetChannel(u) THEN 1 ELSE 0),
                                !.k = i],
                    streams, clk, F)
        ELSE PollLoop(i + 1, [acc EXCEPT !.online = o1, !.k = i], streams, clk, F)

\* get_notifications(): lookup is "ok" or what made a lookup raise
get_notifications(lookup, streams, clk, F) ==
    LET acc == [online |-> online_users, notifications |-> <<>>, cst |-> Call(chat),
                sends |-> 0, raised |-> "", k |-> 0]
    IN  IF lookup # "ok"
        THEN [acc EXCEPT !.online = OnLookupError(online_users),
                         !.raised = Propagated(lookup)]
        ELSE PollLoop(1, acc, streams, clk, F)

\* the list handed to the caller: none when the call raised
Returned(r) == IF r.raised # "" THEN <<>> ELSE r.notifications

InSeq(x, sq) == \E j \in DOMAIN sq : sq[j] = x
Index(u) == CHOOSE i \in DOMAIN Watchlist : Watchlist[i] = u
IsLive(streams, u) == u \in DOMAIN streams /\ strptime(streams[u]) # <<>>

\* the chat environments a poll is run under: the first socket operation of its
\* send_message call may fail
PollFailSets == {F \in FailSets : F \subseteq {1}}

\* the clock readings a call may get; the clock is read for unseen names only
ClockReadings == IF \A u \in Names : u \in DOMAIN online_users THEN {0} ELSE Clock

NoPoll == [lookup |-> "none", raised |-> "", streams |-> <<>>, before |-> <<>>,
           clk |-> 0, appended |-> <<>>, returned |-> <<>>, sends |-> 0]

NoObs  == [t |-> 0, hit |-> FALSE, eff |-> <<>>]
NoPrev == [lookup |-> "none", raised |-> "", obs |-> [u \in Names |-> NoObs]]

NoRun == [t |-> 0, k |-> 0, r0 |-> <<>>, allOk |-> FALSE, n |-> 0]

ScenOff == [stage |-> 0 - 1, t1 |-> 0, clk1 |-> 0, outs |-> <<>>]

\* a fresh process: nothing recorded, no call made yet
PollFresh(u) ==
    /\ online_users = <<>>
    /\ active = 0
    /\ skipped = "no"
    /\ focus = u
    /\ last = NoPoll
    /\ prev = NoPrev
    /\ everAnnounced = {}
    /\ sinceAbsent = {}
    /\ dupEver = FALSE
    /\ repeat = "none"
    /\ run = [v \in Names |-> NoRun]
    /\ scen = [stage |-> 0, t1 |-> 0, clk1 |-> 0, outs |-> <<>>]

\* a watchlist spelled as the logins are, and one with an entry in another case
InitPoll == watchlist = <<"alice", "bob">> /\ PollFresh(watchlist[1])
InitPollCase == watchlist = <<"Alice", "bob">> /\ PollFresh(watchlist[1])

\* what `last` says of a name: the start time seen (0: none), whether the call
\* returned a notification for it, and the value recorded for it before the call
\* (for an unseen name, the clock reading it is first recorded at)
ObsOf(l, u) ==
    IF l.lookup = "ok" /\ IsLive(l.streams, u)
    THEN [t |-> l.streams[u], hit |-> InSeq(u, l.returned),
          eff |-> FirstSeen(l.before, u, l.clk)[u]]
    ELSE NoObs

\* the summary of `last` that `prev` keeps
Summary(l) ==
    [lookup |-> IF l.lookup \in LookupErrors THEN "error" ELSE l.lookup,
     raised |-> l.raised, obs |-> [u \in Names |-> ObsOf(l, u)]]

\* the run of consecutive calls that each got name u live with one startedAt:
\* t, the notifications returned for u (k), the value recorded for u before the
\* run (r0; for a name not recorded yet, the clock reading of the call that may
\* first record it), whether every call returned its list (allOk), and whether
\* the run has one call or more (n)
RunAfter(u, lookup, streams, clk, r) ==
    IF lookup = "ok" /\ IsLive(streams, u)
    THEN LET t   == streams[u]
             hit == IF InSeq(u, Returned(r)) THEN 1 ELSE 0
         IN  IF run[u].t = t
             THEN [run[u] EXCEPT !.k = @ + hit, !.allOk = @ /\ r.raised = "", !.n = 2,
                                 !.r0 = IF u \in DOMAIN online_users THEN @ ELSE <<clk>>]
             ELSE [t |-> t, k |-> hit, r0 |-> FirstSeen(online_users, u, clk)[u],
                   allOk |-> r.raised = "", n |-> 1]
    ELSE NoRun

\* the example scenario: call 1 gets alice live at T1 alone, call 2 the same,
\* call 3 gets bob live alone, each call returning its list
ScenAfter(lookup, streams, clk, r) ==
    IF r.raised # "" THEN ScenOff
    ELSE IF scen.stage = 0 /\ DOMAIN streams = {"alice"} /\ IsLive(streams, "alice")
    THEN [stage |-> 1, t1 |-> streams["alice"], clk1 |-> clk, outs |-> <<Returned(r)>>]
    ELSE IF scen.stage = 1 /\ DOMAIN streams = {"alice"} /\ streams["alice"] = scen.t1
    THEN [scen EXCEPT !.stage = 2, !.outs = Append(@, Returned(r))]
    ELSE IF scen.stage = 2 /\ DOMAIN streams = {"bob"} /\ IsLive(streams, "bob")
    THEN [scen EXCEPT !.stage = 3, !.outs = Append(@, Returned(r))]
    ELSE ScenOff

\* History variables are kept up to date only under the specification that
\* reads them: H names the ones a specification maintains ("last"; "prev"; "run";
\* "scen"; "dup": everAnnounced, sinceAbsent, dupEver, repeat, which follow the
\* name `focus`, any name of the watchlist).
Keep(H, h, new, old) == IF h \in H THEN new ELSE old

\* one call of get_notifications() by check_twitch_online_streamers (line 1192)
Poll(H, lookup, streams, clk, F) ==
    \E r \in {get_notifications(lookup, streams, clk, F)} :
    \E ret \in {Returned(r)} :
        /\ loops["check_twitch_online_streamers"] = "running"
        /\ loops' = [loops EXCEPT !["check_twitch_online_streamers"] = LoopAfter(r.raised)]
        /\ online_users' = r.online
        /\ chat' = After(r.cst)
        /\ last' = Keep(H, "last",
                [lookup |-> lookup, raised |-> r.raised, streams |-> streams,
                 before |-> online_users, clk |-> clk,
                 appended |-> r.notifications, returned |-> ret, sends |-> r.sends],
                last)
        /\ prev' = Keep(H, "prev", Summary(last), prev)
        /\ everAnnounced' = Keep(H, "dup",
                IF InSeq(focus, ret) /\ ~dupEver
                THEN everAnnounced \cup {streams[focus]}
                ELSE everAnnounced, everAnnounced)
        /\ dupEver' = Keep(H, "dup",
                dupEver \/ (InSeq(focus, ret) /\ streams[focus] \in everAnnounced),
                dupEver)
        /\ sinceAbsent' = Keep(H, "dup",
                IF lookup = "ok" /\ focus \notin DOMAIN streams /\ Index(focus) <= r.k
                THEN {}
                ELSE IF InSeq(focus, ret)
                THEN sinceAbsent \cup {streams[focus]}
                ELSE sinceAbsent, sinceAbsent)
        /\ repeat' = Keep(H, "dup",
                IF lookup = "ok" /\ IsLive(streams, focus)
                   /\ streams[focus] \in sinceAbsent
                THEN IF InSeq(focus, ret) THEN "announced"
                     ELSE IF repeat = "none" /\ r.raised = "" THEN "suppressed"
                     ELSE repeat
                ELSE repeat, repeat)
        /\ run' = Keep(H, "run",
                [u \in Names |-> RunAfter(u, lookup, streams, clk, r)], run)
        /\ scen' = Keep(H, "scen", ScenAfter(lookup, streams, clk, r), scen)
        /\ UNCHANGED <<dashVars, watchlist, focus, lastChat, conn, tokVars>>

\* the body of check_twitch_online_streamers is awaited by its loop, so an
\* iteration starts only when the one before it has returned (@loop, line 1181)
LoopIdle_always(n) == TRUE

LoopIdle(n) == n = 0

\* one iteration of check_twitch_online_streamers (lines 1192-1194) in two steps:
\* get_notifications(), which has no await and so runs to its end, then the
\* awaited Discord sends, during which other tasks of the event loop run
BeginPoll ==
    /\ LoopIdle(active)
    /\ \/ \E e \in LookupErrors : Poll({"last"}, e, <<>>, 0, {})
       \/ \E streams \in StreamResults, clk \in ClockReadings, F \in PollFailSets :
              Poll({"last"}, "ok", streams, clk, F)
    /\ active' = IF last'.raised = "" THEN active + 1 ELSE active
    /\ UNCHANGED skipped

SendNotifications ==
    /\ active > 0
    /\ active' = active - 1
    /\ UNCHANGED <<dashVars, skipped, watchlist, online_users, last, prev, focus, everAnnounced,
                   sinceAbsent, dupEver, repeat, run, scen, chatVars, tokVars, loops>>

NextPollSteps == BeginPoll \/ SendNotifications

\* lines 1183-1190: CHANNEL_ID is not configured, or get_channel() does not
\* resolve it; the tick returns before get_notifications() is called
ChannelStates == {"unconfigured", "unresolved", "available"}

ChannelMissing(ch) == ch \in {"unconfigured", "unresolved"}

\* one tick of check_twitch_online_streamers, the channel being in state ch
Tick(ch) ==
    IF ChannelMissing(ch)
    THEN /\ loops["check_twitch_online_streamers"] = "running"
         /\ skipped' = "pending"
         /\ UNCHANGED <<dashVars, watchlist, active, online_users, last, prev, focus,
                        everAnnounced, sinceAbsent, dupEver, repeat, run, scen,
                        chatVars, tokVars, loops>>
    ELSE /\ \/ \E e \in LookupErrors : Poll({"last"}, e, <<>>, 0, {})
            \/ \E streams \in StreamResults, clk \in ClockReadings, F \in PollFailSets :
                   Poll({"last"}, "ok", streams, clk, F)
         /\ skipped' = IF skipped = "pending" THEN "polled" ELSE "no"
         /\ UNCHANGED active

TickSkipped == \E ch \in ChannelStates : ChannelMissing(ch) /\ Tick(ch)

TickPolls == \E ch \in ChannelStates : ~ChannelMissing(ch) /\ Tick(ch)

NextPollTick == TickSkipped \/ TickPolls

\* get_notifications() raising in get_users or get_streams (lines 401-402)
PollLookupFails(H) ==
    /\ \E e \in LookupErrors : Poll(H, e, <<>>, 0, {})
    /\ UNCHANGED <<active, skipped>>

\* get_notifications() with both lookups answered: the loop runs, and returns
\* its list unless a started_at does not parse
PollRuns(H) ==
    /\ \E streams \in StreamResults, clk \in ClockReadings, F \in PollFailSets :
            Poll(H, "ok", streams, clk, F)
    /\ UNCHANGED <<active, skipped>>

NextPoll(H) == PollLookupFails(H) \/ PollRuns(H)

(***************************************************************************)
(* Bot credentials.  A token is the number of the grant that issued it (1  *)
(* for the tokens in config.json at start); 0 is an empty or missing one.  *)
(***************************************************************************)
Cred(a, r, app) == [bot_access |-> a, bot_refresh |-> r, app_access |-> app]

NoResp == [status |-> 0, access_token |-> 0, refresh_token |-> 0]

\* the identity provider's answer to the refresh-token grant (line 37): the
\* request raises (status 0 here), the provider is unavailable (503), or it
\* answers: 200 with a new token pair when the refresh token is the one it
\* accepts, which it then rotates, and 400 (invalid grant) otherwise; "garbled"
\* is a 200 whose body lacks the tokens (token 0 here)
Nets == {"answered", "unavailable", "raises", "garbled"}
GrantResponse(rt, net) ==
    IF net = "raises" THEN NoResp
    ELSE IF net = "unavailable" THEN [NoResp EXCEPT !.status = 503]
    ELSE IF net = "garbled" THEN [NoResp EXCEPT !.status = 200]
    ELSE IF rt = idp.bot
    THEN [status |-> 200, access_token |-> idp.bot + 1, refresh_token |-> idp.bot + 1]
    ELSE [NoResp EXCEPT !.status = 400]

\* the provider rotates the refresh token it accepts with each pair it grants
IdpAfter(g) ==
    IF g.status = 200 /\ g.refresh_token # 0 THEN [idp EXCEPT !.bot = @ + 1] ELSE idp

\* lines 39-42: status 200 and a body that has both tokens (else KeyError,
\* caught at line 70)
GrantAccepted(g) == g.status = 200 /\ g.access_token # 0 /\ g.refresh_token # 0

\* lines 45-50: both tokens of the response replace the stored ones, and the
\* config is written back
StoreTokens_accessOnly(f, g) == [f EXCEPT !.bot_access = g.access_token]
StoreTokens(f, g) ==
    [f EXCEPT !.bot_access = g.access_token, !.bot_refresh = g.refresh_token]

\* lines 57-73: a failed refresh returns without writing the config
KeepTokens_cleared(f) == [f EXCEPT !.bot_access = 0]
KeepTokens(f) == f

\* lines 62-73: FileNotFoundError, JSONDecodeError and Exception are all caught,
\* so nothing the body raises leaves refresh_twitch_bot_token
Caught_reraised(exc) == exc
Caught(exc) == ""

\* what the body of refresh_twitch_bot_token raises: the request itself (line
\* 37), or data["access_token"] / data["refresh_token"] on a body without them
RaisedBy(g, net) ==
    IF net = "raises" THEN "ConnectionError"
    ELSE IF g.status = 200 /\ ~GrantAccepted(g) THEN "KeyError"
    ELSE ""

\* the second component of the result, by its leading words
NoRefreshTokenMsg == "No refresh token available for bot account"
RefreshedMsg      == "Successfully refreshed bot access token"
FailureMsg(g, net) ==
    IF RaisedBy(g, net) # "" THEN "Error refreshing bot token"
    ELSE "Failed to refresh bot token: HTTP"

\* line 26-28: config.get('twitch_bot_refresh_token') is missing or empty
HasRefreshToken_always(f) == TRUE

HasRefreshToken(f) == f.bot_refresh # 0

\* refresh_twitch_bot_token("config.json"):
\* [success, message, file, resp, sent, raised]
refresh_twitch_bot_token(f, net) ==
    IF ~HasRefreshToken(f)
    THEN [success |-> FALSE, message |-> NoRefreshTokenMsg, file |-> f, resp |-> NoResp,
          sent |-> FALSE, raised |-> ""]
    ELSE LET g == GrantResponse(f.bot_refresh, net) IN
         IF GrantAccepted(g)
         THEN [success |-> TRUE, message |-> RefreshedMsg, file |-> StoreTokens(f, g),
               resp |-> g, sent |-> TRUE, raised |-> ""]
         ELSE [success |-> FALSE, message |-> FailureMsg(g, net), file |-> KeepTokens(f),
               resp |-> g, sent |-> TRUE, raised |-> Caught(RaisedBy(g, net))]

\* json.load of config.json into memory (lines 153-154, 572-574)
LoadConfig(f) == f

TokDone(op, by, r) ==
    [op |-> op, by |-> by, success |-> r.success, message |-> r.message,
     resp |-> r.resp, sent |-> r.sent,
     raised |-> r.raised, preFile |-> file, preConfig |-> config, preDash |-> dashcfg]

\* a refresh token the identity provider has revoked
Revoked == MaxGrants + 1

\* the threads that call refresh_twitch_bot_token: the Discord event loop (the
\* daily task and the !refresh_bot_token command) and the Flask server thread
Threads == {"bot", "flask"}
NoCall == [pc |-> "idle", cfg |-> Cred(0, 0, 0), resp |-> NoResp, consumed |-> FALSE]

\* config.json as loaded at start: with a refresh token (valid or revoked) or
\* without one
TokenAt(f) ==
    /\ file = f
    /\ config = file
    /\ dashcfg = file
    /\ idp = [bot |-> 1, app |-> 1]
    /\ lastTok = [op |-> "none", by |-> "", success |-> FALSE, message |-> "",
                  resp |-> NoResp,
                  sent |-> FALSE, raised |-> "", preFile |-> file, preConfig |-> file,
                  preDash |-> file]
    /\ thr = [t \in Threads |-> NoCall]

InitToken == \E f \in {Cred(1, 1, 1), Cred(1, Revoked, 1), Cred(1, 0, 1)} : TokenAt(f)

\* a grant may be answered with a new pair only below the model's bound
GrantInBound(f, net) == net = "answered" /\ f.bot_refresh = idp.bot => idp.bot < MaxGrants

\* TwitchAPI.refresh_bot_token (lines 149-159), called by update_bot_token_task
\* (lines 1163-1165) or by the !refresh_bot_token command (lines 860-865)
RefreshBotToken ==
    \E net \in Nets, by \in {"task", "command"} :
        LET r == refresh_twitch_bot_token(file, net) IN
        /\ GrantInBound(file, net)
        /\ by = "task" => loops["update_bot_token_task"] = "running"
        /\ loops' = IF by = "task"
                    THEN [loops EXCEPT !["update_bot_token_task"] = LoopAfter(r.raised)]
                    ELSE loops
        /\ file' = r.file
        /\ idp' = IF r.sent THEN IdpAfter(r.resp) ELSE idp
        /\ config' = IF r.success THEN LoadConfig(r.file) ELSE config
        /\ lastTok' = TokDone("refresh_bot_token", by, r)
        /\ UNCHANGED <<dashVars, dashcfg, thr, chatVars, pollVars>>

\* the dashboard route /api/refresh_token (lines 1553-1567)
RouteRefresh ==
    \E net \in Nets :
        LET r == refresh_twitch_bot_token(file, net) IN
        /\ GrantInBound(file, net)
        /\ file' = r.file
        /\ idp' = IF r.sent THEN IdpAfter(r.resp) ELSE idp
        /\ dashcfg' = IF r.success THEN LoadConfig(r.file) ELSE dashcfg
        /\ lastTok' = TokDone("route_refresh_token", "route", r)
        /\ UNCHANGED <<dashVars, config, thr, chatVars, pollVars, loops>>

\* Config.save() (lines 52-54): the whole in-memory dict is written out
Save(c) == c

\* get_app_access_token (lines 140-147): the request raises, or is answered
\* with a token, or with a body that has no "access_token" (KeyError)
AppGrants == {"answered", "raises", "rejected"}
AppRaised(net) ==
    CASE net = "raises" -> "ConnectionError" [] net = "rejected" -> "KeyError"
      [] OTHER -> ""

\* update_token_task (lines 1152-1160): a new app access token is stored in the
\* in-memory Config, which is then saved; nothing is stored when the request
\* raises, and the exception leaves the task body
UpdateTokenTask ==
    \E net \in AppGrants :
        LET answered == net = "answered" IN
        /\ loops["update_token_task"] = "running"
        /\ thr["bot"].pc = "idle"
        /\ answered => idp.app < MaxGrants
        /\ loops' = [loops EXCEPT !["update_token_task"] = LoopAfter(AppRaised(net))]
        /\ idp' = IF answered THEN [idp EXCEPT !.app = @ + 1] ELSE idp
        /\ config' = IF answered THEN [config EXCEPT !.app_access = idp.app + 1] ELSE config
        /\ file' = IF answered THEN Save(config') ELSE file
        /\ lastTok' = [op |-> "update_token_task", by |-> "task", success |-> answered,
                       message |-> "",
                       resp |-> NoResp, sent |-> TRUE, raised |-> AppRaised(net),
                       preFile |-> file, preConfig |-> config, preDash |-> dashcfg]
        /\ UNCHANGED <<dashVars, dashcfg, thr, chatVars, pollVars>>


\* the refreshes of the bot token together with the keep-alive task, which
\* reconnects the chat transport
NextCred == RefreshBotToken \/ RouteRefresh \/ CheckTwitchPing

(***************************************************************************)
(* The same refresh, one step at a time.  The Flask server runs in its own *)
(* thread, so a refresh started by /api/refresh_token and one started in   *)
(* the Discord event loop interleave at the file read, the grant request,  *)
(* the file write and the reload; no lock is taken anywhere on that path.  *)
(***************************************************************************)
\* lines 23-28: config.json is read; without a refresh token the call returns
ReadStep(t) ==
    /\ thr[t].pc = "idle"
    /\ thr' = [thr EXCEPT ![t] =
            [pc |-> IF file.bot_refresh = 0 THEN "idle" ELSE "post", cfg |-> file,
             resp |-> NoResp, consumed |-> FALSE]]
    /\ UNCHANGED <<dashVars, file, config, dashcfg, idp, lastTok, chatVars, pollVars, loops>>

\* lines 30-42: the grant request carries the refresh token that was read;
\* consumed: the provider got a token that an earlier grant had replaced
PostStep(t) ==
    \E net \in Nets :
        LET c == thr[t].cfg
            g == GrantResponse(c.bot_refresh, net)
        IN  /\ thr[t].pc = "post"
            /\ GrantInBound(c, net)
            /\ idp' = IdpAfter(g)
            /\ thr' = [thr EXCEPT ![t] =
                    [pc |-> IF GrantAccepted(g) THEN "write" ELSE "idle", cfg |-> c,
                     resp |-> g,
                     consumed |-> net = "answered" /\ c.bot_refresh < idp.bot]]
            /\ UNCHANGED <<dashVars, file, config, dashcfg, lastTok, chatVars, pollVars, loops>>

\* lines 45-50: the config that was read is written back with the new tokens
WriteStep(t) ==
    /\ thr[t].pc = "write"
    /\ file' = StoreTokens(thr[t].cfg, thr[t].resp)
    /\ thr' = [thr EXCEPT ![t].pc = "reload"]
    /\ UNCHANGED <<dashVars, config, dashcfg, idp, lastTok, chatVars, pollVars, loops>>

\* the caller reloads config.json: TwitchAPI.refresh_bot_token into Config.data
\* (lines 153-154), the route into DashboardData.config (line 1562)
ReloadStep(t) ==
    /\ thr[t].pc = "reload"
    /\ config' = IF t = "bot" THEN LoadConfig(file) ELSE config
    /\ dashcfg' = IF t = "flask" THEN LoadConfig(file) ELSE dashcfg
    /\ thr' = [thr EXCEPT ![t].pc = "idle"]
    /\ lastTok' = [op |-> IF t = "bot" THEN "refresh_bot_token" ELSE "route_refresh_token",
                   by |-> t, success |-> TRUE, message |-> RefreshedMsg,
                   resp |-> thr[t].resp, sent |-> TRUE,
                   raised |-> "", preFile |-> file, preConfig |-> config,
                   preDash |-> dashcfg]
    /\ UNCHANGED <<dashVars, file, idp, chatVars, pollVars, loops>>

NextRace ==
    \/ \E t \in Threads : ReadStep(t) \/ PostStep(t) \/ WriteStep(t) \/ ReloadStep(t)
    \/ UpdateTokenTask


(***************************************************************************)
(* validate_bot_token(token, config_path): a test call to the users        *)
(* endpoint with the token.  The environment gives what reading the config *)
(* file yields and how the request ends: a status code, or 0 for a request *)
(* that raises.                                                            *)
(***************************************************************************)
Statuses == {200, 401, 403, 500}
ConfigReads == {"ok", "no_client_id", "raises"}

IsValidStatus_not401(status) == status # 401

IsValidStatus(status) == status = 200

validate_bot_token(token, cfg, status) ==
    IF token = 0
    THEN [valid |-> FALSE, msg |-> "No token provided", requested |-> FALSE]
    ELSE IF cfg = "raises"
    THEN [valid |-> FALSE, msg |-> "Error validating token", requested |-> FALSE]
    ELSE IF cfg = "no_client_id"
    THEN [valid |-> FALSE, msg |-> "No client ID found in config", requested |-> FALSE]
    ELSE IF status = 0
    THEN [valid |-> FALSE, msg |-> "Error validating token", requested |-> TRUE]
    ELSE IF IsValidStatus(status)
    THEN [valid |-> TRUE, msg |-> "Token is valid", requested |-> TRUE]
    ELSE IF status = 401
    THEN [valid |-> FALSE, msg |-> "Token is invalid or expired", requested |-> TRUE]
    ELSE [valid |-> FALSE, msg |-> "Token validation failed", requested |-> TRUE]

\* get_current_bot_token
CurrentBotToken(f) == f.bot_access

NoVal == [op |-> "none", token |-> 0, cfg |-> "ok", status |-> 0,
          valid |-> FALSE, msg |-> "", requested |-> FALSE]

ValidateBotToken ==
    \E token \in {0, CurrentBotToken(file)}, cfg \in ConfigReads,
       status \in Statuses \cup {0} :
        /\ \E r \in {validate_bot_token(token, cfg, status)} :
            lastVal' = [op |-> "validate_bot_token", token |-> token, cfg |-> cfg,
                        status |-> IF r.requested THEN status ELSE 0,
                        valid |-> r.valid, msg |-> r.msg, requested |-> r.requested]
        /\ UNCHANGED <<chat_messages, arrived, lastParse, chatVars, pollVars,
                       tokVars, loops>>

NextToken == RefreshBotToken \/ RouteRefresh \/ UpdateTokenTask \/ ValidateBotToken

(***************************************************************************)
(* DashboardData.chat_messages, the chat history shown by the dashboard.   *)
(* The chat reader thread hands every chunk it receives to                 *)
(* parse_chat_messages; a chunk is a sequence of IRC lines.  A line is     *)
(* given by what the parser looks at: the command it contains, the number  *)
(* of pieces line.split(':', 2) yields and the prefix before the command.  *)
(* The text of a message is its arrival number.                            *)
(***************************************************************************)
maxlen == 100

ChatLines ==
    { [cmd |-> "PRIVMSG", parts |-> 3, prefix |-> "viewer!viewer@viewer.tmi.twitch.tv"],
      [cmd |-> "PRIVMSG", parts |-> 2, prefix |-> ""],
      [cmd |-> "PING",    parts |-> 2, prefix |-> ""],
      [cmd |-> "JOIN",    parts |-> 2, prefix |-> "viewer!viewer@viewer.tmi.twitch.tv"] }

\* data.strip().split('\r\n'): one line at least
ChatData == UNION { [1..n -> ChatLines] : n \in 1..MaxLines }

\* parts[1].split('!')[0]
UserPart(line) ==
    IF line.prefix = "viewer!viewer@viewer.tmi.twitch.tv" THEN "viewer" ELSE line.prefix

message_data(line, n) == [username |-> UserPart(line), message |-> n]

\* deque.append on a deque(maxlen=100): a full deque drops its leftmost item
DequeAppend_dropNewest(d, x) == IF Len(d) >= maxlen THEN d ELSE Append(d, x)

DequeAppend(d, x) == IF Len(d) >= maxlen THEN Append(Tail(d), x) ELSE Append(d, x)

\* lines 511-513: the PONG write of the PING branch is outside the try of the
\* PRIVMSG branch, so a write that raises leaves the loop and the function
PongRaised(failed) == IF failed THEN "OSError" ELSE ""

\* the for loop of parse_chat_messages over acc = [msgs, n, appended, pongs,
\* raised, k]: k is the number of lines the loop has finished, failAt the number
\* of the PONG write that raises (0: none does)
RECURSIVE ParseLines(_, _, _, _)
ParseLines(lines, i, acc, failAt) ==
    IF i > Len(lines) \/ acc.raised # "" THEN acc
    ELSE LET line == lines[i]
         IN  IF line.cmd = "PRIVMSG"
             THEN IF line.parts >= 3
                  THEN LET m == message_data(line, acc.n + 1)
                       IN  ParseLines(lines, i + 1,
                               [acc EXCEPT !.msgs = DequeAppend(acc.msgs, m),
                                           !.n = acc.n + 1,
                                           !.appended = Append(acc.appended, m),
                                           !.k = i], failAt)
                  ELSE ParseLines(lines, i + 1, [acc EXCEPT !.k = i], failAt)
             ELSE IF line.cmd = "PING"
                  THEN IF acc.pongs + 1 = failAt
                       THEN ParseLines(lines, i + 1,
                               [acc EXCEPT !.raised = PongRaised(TRUE)], failAt)
                       ELSE ParseLines(lines, i + 1,
                               [acc EXCEPT !.pongs = acc.pongs + 1, !.k = i], failAt)
                  ELSE ParseLines(lines, i + 1, [acc EXCEPT !.k = i], failAt)

parse_chat_messages(msgs, n, data, failAt) ==
    ParseLines(data, 1, [msgs |-> msgs, n |-> n, appended |-> <<>>, pongs |-> 0,
                         raised |-> "", k |-> 0], failAt)

NoParse == [op |-> "none", data |-> <<>>, before |-> <<>>, appended |-> <<>>, pongs |-> 0,
            raised |-> "", k |-> 0]

ParseChatMessages ==
    \E data \in ChatData, failAt \in 0..MaxLines :
        /\ arrived + Len(data) <= MaxMsgs
        /\ \E r \in {parse_chat_messages(chat_messages, arrived, data, failAt)} :
            /\ chat_messages' = r.msgs
            /\ arrived' = r.n
            /\ lastParse' = [op |-> "parse", data |-> data, before |-> chat_messages,
                             appended |-> r.appended, pongs |-> r.pongs,
                             raised |-> r.raised, k |-> r.k]
        /\ UNCHANGED <<lastVal, chatVars, pollVars, tokVars, loops>>

NextHistory == ParseChatMessages

InitDash ==
    chat_messages = <<>> /\ arrived = 0 /\ lastParse = NoParse /\ lastVal = NoVal

(***************************************************************************)
(* Properties of the stream poller.                                        *)
(***************************************************************************)
\* C1 as stated: no (name, startedAt) pair is ever returned as a notification
\* more than once, whatever mix of live, not-live and repeated observations
NoPairAnnouncedTwice == ~dupEver

\* C1: a (name, startedAt) pair that was returned as a notification is not
\* returned again for as long as the name is not recorded not-live in between
NoPairAnnouncedTwiceWhileLive == repeat # "announced"

\* a call that returned normally got, and did not announce again, a pair already
\* announced since the name was last recorded not-live
RepeatSuppressed == repeat = "suppressed"

AbsentThenPresentNotified ==
    \A u \in Names :
        /\ last.lookup = "ok"
        /\ u \in DOMAIN last.before /\ last.before[u] = <<>>
        /\ IsLive(last.streams, u)
        => InSeq(u, last.returned)

\* C5: a poll whose lookup fails leaves the recorded values as they were, and the
\* successful poll after it, getting a name at the start time recorded for it,
\* has no notification for that name
LookupFailureKeepsState ==
    /\ last.lookup \in LookupErrors => online_users = last.before
    /\ \A u \in Names :
        /\ prev.lookup = "error" /\ last.lookup = "ok"
        /\ u \in DOMAIN last.before /\ last.before[u] # <<>>
        /\ IsLive(last.streams, u) /\ last.streams[u] = last.before[u][1]
        => ~InSeq(u, last.appended) /\ ~InSeq(u, last.returned)

\* a lookup failed while a name was recorded live at t1, and the next poll
\* succeeded and got the name at t1
SameSessionAfterLookupFailure ==
    \E u \in Names :
        /\ prev.lookup = "error" /\ last.lookup = "ok" /\ last.raised = ""
        /\ u \in DOMAIN last.before /\ last.before[u] # <<>>
        /\ IsLive(last.streams, u) /\ last.streams[u] = last.before[u][1]

\* C6 as stated: a poll whose user or stream lookup fails returns an empty list
\* to its caller; it does not raise
LookupFailureReturnsEmpty ==
    last.lookup \in LookupErrors => last.raised = "" /\ last.returned = <<>>

\* C15 as stated: a poll that gets an entry whose started_at does not parse is
\* not aborted: it returns normally, and every other name it got live with a
\* notification due (recorded not-live, or at an earlier start) is returned
MalformedEntrySkipped ==
    /\ last.lookup = "ok"
    /\ \E v \in DOMAIN last.streams : strptime(last.streams[v]) = <<>>
    => /\ last.raised = ""
       /\ \A u \in Names :
            /\ IsLive(last.streams, u)
            /\ u \in DOMAIN last.before
            /\ last.before[u] = <<>> \/ last.streams[u] > last.before[u][1]
            => InSeq(u, last.returned)

AuthFailureTriggersRefresh ==
    last.lookup \in {"users:KeyError", "streams:KeyError"} =>
        lastTok.op = "refresh_bot_token"

\* C17: a poll calls send_message with the live message once for each
\* notification whose name equals the target channel, letter case aside, and
\* for no other notification
TargetChannelSentOnce ==
    last.lookup = "ok" =>
        last.sends = Cardinality({j \in DOMAIN last.appended :
                                    Lower(last.appended[j]) = Lower(TargetChannel)})

\* one poll notified the target channel, sent to chat once, and another name
NotifiedTargetAndOther ==
    /\ last.lookup = "ok" /\ last.sends = 1
    /\ \E j \in DOMAIN last.returned : Lower(last.returned[j]) = Lower(TargetChannel)
    /\ \E j \in DOMAIN last.returned : Lower(last.returned[j]) # Lower(TargetChannel)

\* C19 as stated: after a poll whose lookup failed (the request raised, or it
\* was answered 401) the 60-second poller is still scheduled
PollFailureKeepsLoop ==
    last.lookup \in LookupErrors => loops["check_twitch_online_streamers"] = "running"

WatchedNameMatchedIgnoringCase ==
    \A u \in Names :
        /\ last.lookup = "ok" /\ last.raised = ""
        /\ IsLive(last.streams, Lower(u))
        => /\ online_users[u] # <<>>
           /\ (u \in DOMAIN last.before /\ last.before[u] = <<>>)
                => InSeq(u, last.returned)

\* C28 as stated: after a poll that returned normally, each watched name that
\* is not among the live results (letter case aside) is recorded not-live, and
\* each one that is among them has a time recorded
RecordedStateMatchesResults ==
    (last.lookup = "ok" /\ last.raised = "") =>
        \A u \in Names :
            /\ Lower(u) \notin DOMAIN last.streams => online_users[u] = <<>>
            /\ Lower(u) \in DOMAIN last.streams => online_users[u] # <<>>

\* C37: the list a poll returns has at most one notification for a name, only
\* for names that are on the watchlist and in the live streams the poll got,
\* and in the order of the watchlist
NotificationsFollowWatchlist ==
    LET ret == last.returned IN
    last.lookup = "ok" =>
        /\ \A j \in DOMAIN ret : ret[j] \in Names /\ ret[j] \in DOMAIN last.streams
        /\ \A i, j \in DOMAIN ret : i < j => Index(ret[i]) < Index(ret[j])

\* a poll returned a notification for each of two watched names
TwoNotificationsReturned == last.lookup = "ok" /\ Len(last.returned) = 2

\* the last poll got u live with a start time that is new to the value recorded
\* for u by an earlier poll
NewSessionSeen(u) ==
    /\ IsLive(last.streams, u)
    /\ u \in DOMAIN last.before
    /\ IsNewSession(last.before[u], strptime(last.streams[u])[1])

\* C38 as stated: a tick at which the channel is not configured or not resolved
\* leaves the recorded values as they were, and the poll of the first tick at
\* which the channel is available returns a notification for every session
\* that is new to the values recorded before the skipped ticks
SkippedTickLosesNothing ==
    /\ [][skipped' = "pending" => UNCHANGED <<online_users, last, chat>>]_vars
    /\ [](skipped = "polled" /\ last.lookup = "ok" =>
            \A u \in Names : NewSessionSeen(u) => InSeq(u, last.returned))

\* the last poll advanced the value recorded for u to the start time it got
\* (lines 414-415)
Advanced(u) ==
    /\ last.lookup = "ok"
    /\ InSeq(u, last.appended)
    /\ online_users[u] = strptime(last.streams[u])
    /\ (u \in DOMAIN last.before => last.before[u] # online_users[u])

\* C35 as stated: whenever a poll advances the value recorded for a name to a
\* new start time, the notification for that name is in the list the poll
\* hands to its caller, whatever fails later in the same poll
RecordedImpliesAnnounced ==
    \A u \in Names : Advanced(u) => InSeq(u, last.returned)

\* C30: at most one execution of the poller's body is in progress at any time,
\* and the recorded values change only in a step of get_notifications that
\* started with no other execution in progress
PollsNeverOverlap ==
    /\ [](active <= 1)
    /\ [][online_users' # online_users =>
            (active = 0 /\ last'.before = online_users)]_vars

\* a poll has recorded a change and its body is still awaiting its sends
PollBodyInProgress ==
    active = 1 /\ last.lookup = "ok" /\ last.before # online_users

\* the welcome was read on the current socket and self.connected is set
Joined(c) == c.connected /\ c.sock = "joined"

\* C31: the transport has no terminal failure state: in every reachable state a
\* connect() none of whose socket operations fails returns True with the
\* transport joined; and once the keep-alive task runs, a transport whose
\* connected flag is False is eventually joined again: the flag never stays
\* False for ever, and whenever it is set the transport is joined
NoTerminalFailure ==
    /\ [](\E r \in {connect(Call(chat), {})} : r.ret /\ Joined(r.st))
    /\ [][~chat.connected /\ chat'.connected => Joined(chat')]_vars
    /\ []<>(chat.connected \/ loops["check_twitch_ping"] # "running")

\* the keep-alive task found the transport disconnected after a failed call and
\* joined it again
KeepAliveRejoined ==
    /\ lastChat.op = "check_twitch_ping"
    /\ ~lastChat.pre.connected /\ lastChat.pre.sock = "new"
    /\ Joined(chat)

\* C24: at no time are two connect() executions on the transport in progress,
\* one entered from the Flask thread and one from the Discord event loop
ConnectMutuallyExclusive ==
    ~(conn["bot"].pc # "idle" /\ conn["flask"].pc # "idle")

(***************************************************************************)
(* Properties of the chat transport.                                       *)
(***************************************************************************)
\* C8: a send_message call on a joined transport in which one probe or message
\* write fails (the first one, and none after a welcome) marks the transport
\* disconnected and calls connect() exactly once; when that handshake completes
\* the message is written last, the call returns True and the transport is
\* connected; when it fails the call returns False having tried nothing more,
\* and the transport is left disconnected
ReconnectOnceOnSend ==
    LET l   == lastChat
        n   == Len(l.log)
        at(k, f) == {j \in 1..n : l.log[j].k = k /\ l.log[j].f \in f}
        lost == at("writefail", {"PING", "PRIVMSG"})
        handshakeFailed ==
            at("tcpfail", {""}) \cup at("recvfail", {""})
            \cup at("writefail", {"PASS", "NICK", "JOIN"})
    IN  /\ l.op = "send_message"
        /\ l.pre.connected /\ l.pre.sock = "joined"
        /\ Cardinality(lost) = 1
        => /\ Cardinality(at("connect", {""})) = 1
           /\ \A j \in at("connect", {""}) : \A i \in lost : i < j
           /\ IF handshakeFailed = {}
              THEN /\ l.ret
                   /\ l.log[n] = Ev("write", "PRIVMSG", l.msg)
                   /\ chat.connected
              ELSE /\ ~l.ret
                   /\ handshakeFailed = {n}
                   /\ ~chat.connected

\* a write of a send_message call on a joined transport failed, the one
\* reconnect completed and the message went out
ResentAfterReconnect ==
    /\ lastChat.op = "send_message"
    /\ lastChat.pre.connected /\ lastChat.pre.sock = "joined"
    /\ lastChat.ret
    /\ \E j \in DOMAIN lastChat.log :
        lastChat.log[j] = Ev("writefail", "PRIVMSG", lastChat.msg)

\* how many times event e is in the log of a call
LogCount(log, e) == Cardinality({j \in DOMAIN log : log[j] = e})

\* an event that ends a connect() with False: the TCP connect, a PASS, NICK or
\* JOIN write or the read of the welcome failed
HandshakeFailure(e) ==
    \/ e.k \in {"tcpfail", "recvfail"}
    \/ e.k = "writefail" /\ e.f \in {"PASS", "NICK", "JOIN"}

\* the first connect() of the call read the welcome
FirstConnectSucceeded(log) ==
    \E j \in DOMAIN log :
        /\ log[j].k = "recv"
        /\ \A i \in 1..(j - 1) : ~HandshakeFailure(log[i])

\* C32 as stated: a send_message call on a transport that is not connected
\* starts with connect(); when that connect() fails the call returns False and
\* writes no PRIVMSG, and when it succeeds exactly one PRIVMSG carrying the
\* message is written
SendConnectsThenWritesOnce ==
    LET l == lastChat IN
    l.op = "send_message" /\ ~l.pre.connected =>
        /\ l.log[1] = Ev("connect", "", "")
        /\ IF FirstConnectSucceeded(l.log)
           THEN LogCount(l.log, Ev("write", "PRIVMSG", l.msg)) = 1
           ELSE ~l.ret /\ \A j \in DOMAIN l.log : l.log[j].f # "PRIVMSG"

\* C32, amended: a send_message call on a transport that is not connected
\* starts with connect(); when that connect() fails the call returns False and
\* writes no PRIVMSG; when it succeeds the message is written at most once,
\* exactly once when the call returns True and not at all when it returns
\* False, and the call returns True when no socket operation fails
SendConnectsThenWritesAtMostOnce ==
    LET l == lastChat
        written == LogCount(l.log, Ev("write", "PRIVMSG", l.msg))
    IN  l.op = "send_message" /\ ~l.pre.connected =>
            /\ l.log[1] = Ev("connect", "", "")
            /\ IF FirstConnectSucceeded(l.log)
               THEN /\ written = IF l.ret THEN 1 ELSE 0
                    /\ (\A j \in DOMAIN l.log :
                            l.log[j].k \in {"connect", "tcp", "recv", "write"}) => l.ret
               ELSE ~l.ret /\ \A j \in DOMAIN l.log : l.log[j].f # "PRIVMSG"

\* a send_message call connected the transport, then the write of the message
\* failed and so did the reconnect: the call returned False with nothing sent
ConnectedThenSendLost ==
    /\ lastChat.op = "send_message" /\ ~lastChat.pre.connected
    /\ FirstConnectSucceeded(lastChat.log)
    /\ LogCount(lastChat.log, Ev("writefail", "PRIVMSG", lastChat.msg)) = 1
    /\ ~lastChat.ret

\* C33 as stated: a top-level connect() call that returns True has written the
\* confirmation message exactly once, and one that returns False has not
\* written it
OneConfirmationPerConnect ==
    LET sent == LogCount(lastChat.log, Ev("write", "PRIVMSG", ConfirmMsg)) IN
    lastChat.op = "connect" => sent = IF lastChat.ret THEN 1 ELSE 0

\* C36 as stated: when a connect() call returns True the transport is connected
\* at that moment, also when the confirmation message sent inside it failed
TrueConnectIsConnected ==
    lastChat.op = "connect" /\ lastChat.ret => chat.connected

\* C39: a send_message call returns True only when the last thing it did was to
\* write the PRIVMSG carrying its message without error, and a call that wrote
\* no such frame returns False; whatever socket operations failed, the call
\* ends with a result, True or False
TrueOnlyIfWritten ==
    LET l == lastChat
        n == Len(l.log)
    IN  l.op = "send_message" =>
            /\ l.ret \in BOOLEAN
            /\ l.ret => n > 0 /\ l.log[n] = Ev("write", "PRIVMSG", l.msg)
            /\ LogCount(l.log, Ev("write", "PRIVMSG", l.msg)) = 0 => ~l.ret

\* a send_message call returned True after a failed probe and a reconnect
SentAfterProbeFailed ==
    /\ lastChat.op = "send_message" /\ lastChat.ret
    /\ LogCount(lastChat.log, Ev("writefail", "PING", "")) = 1

\* C13 as stated: whenever connected is true the current socket has sent
\* PASS, NICK and JOIN and received the welcome acknowledgment
ConnectedOnlyAfterHandshake == chat.connected => chat.sock = "joined"

\* C25 as stated: after a connect() that returned False the transport is
\* disconnected, whatever it was before the call
FailedConnectLeavesDisconnected ==
    (lastChat.op = "connect" /\ ~lastChat.ret) => ~chat.connected

\* C29: a call whose liveness probe failed on a joined transport leaves it
\* disconnected unless a connect() of the same call then got the welcome; and a
\* send_message on a disconnected transport starts with connect() and writes a
\* PRIVMSG only after the welcome was read
ProbeFailureForcesReconnect ==
    /\ ( /\ lastChat.op \in {"send_message", "check_twitch_ping"}
         /\ lastChat.pre.connected /\ lastChat.pre.sock = "joined"
         /\ lastChat.log[1] = Ev("writefail", "PING", "") )
       => /\ lastChat.log[2] = Ev("connect", "", "")
          /\ chat.connected =>
                \E j \in DOMAIN lastChat.log : lastChat.log[j] = Ev("recv", "", "")
    /\ (lastChat.op = "send_message" /\ ~lastChat.pre.connected)
       => /\ lastChat.log[1] = Ev("connect", "", "")
          /\ \A j \in DOMAIN lastChat.log :
                (lastChat.log[j].k = "write" /\ lastChat.log[j].f = "PRIVMSG") =>
                    \E i \in 1..(j - 1) : lastChat.log[i] = Ev("recv", "", "")

\* the keep-alive task's probe failed on a joined transport, its reconnect
\* failed too, and the transport is left disconnected
ProbeFailedAndDisconnected ==
    /\ lastChat.op = "check_twitch_ping"
    /\ lastChat.pre.connected /\ lastChat.pre.sock = "joined"
    /\ lastChat.log[1] = Ev("writefail", "PING", "")
    /\ ~chat.connected

FailedRefreshChangesNothing ==
    /\ lastTok.op \in {"refresh_bot_token", "route_refresh_token"}
    /\ lastTok.sent /\ lastTok.resp.status # 200
    => /\ ~lastTok.success
       /\ file = lastTok.preFile
       /\ config = lastTok.preConfig
       /\ dashcfg = lastTok.preDash

\* a refresh_bot_token was answered "invalid grant"
RefreshRejected ==
    /\ lastTok.op = "refresh_bot_token"
    /\ lastTok.sent /\ lastTok.resp.status = 400

\* C34: a refresh called when config.json has no bot refresh token reports
\* failure with the "no refresh token" message, sends no request to the token
\* endpoint, and leaves config.json and both in-memory configs as they were
NoRefreshTokenFailsFast ==
    /\ lastTok.op \in {"refresh_bot_token", "route_refresh_token"}
    /\ lastTok.preFile.bot_refresh = 0
    => /\ ~lastTok.success
       /\ lastTok.message = NoRefreshTokenMsg
       /\ ~lastTok.sent /\ lastTok.resp = NoResp
       /\ file = lastTok.preFile
       /\ config = lastTok.preConfig
       /\ dashcfg = lastTok.preDash

\* a refresh was called with no refresh token in config.json
RefreshWithoutToken ==
    /\ lastTok.op = "refresh_bot_token"
    /\ lastTok.preFile.bot_refresh = 0
    /\ lastTok.message = NoRefreshTokenMsg

\* C18: a refresh that fails raises nothing to its caller, leaves the bot's
\* credentials in memory as they were, and leaves the daily task scheduled
FailedRefreshNotFatal ==
    lastTok.op = "refresh_bot_token" /\ ~lastTok.success =>
        /\ lastTok.raised = ""
        /\ config = lastTok.preConfig
        /\ lastTok.by = "task" => loops["update_bot_token_task"] = "running"

\* the daily task's refresh failed on a request that raised
TaskRefreshRaisedInside ==
    /\ lastTok.op = "refresh_bot_token" /\ lastTok.by = "task"
    /\ ~lastTok.success /\ lastTok.sent /\ lastTok.resp.status = 0

\* C21 as stated: once a refresh grant has succeeded, the refresh token in
\* config.json is the one the latest successful grant returned
StoredRefreshIsLatest == idp.bot > 1 => file.bot_refresh = idp.bot

\* C22 as stated: a connect() made after a successful refresh of the bot token
\* writes PASS with the access token that refresh was granted
PassCarriesLatestToken ==
    lastChat.pass # <<>> /\ lastChat.granted > 1 =>
        lastChat.pass[1] = lastChat.granted

\* the lines of a chunk that are server PINGs
PingLines(lines) == {j \in DOMAIN lines : IsPing(lines[j])}

\* C26 as stated: the keep-alive task writes a PONG for every PING line of the
\* buffer it read from the chat socket, wherever the line sits in the buffer,
\* unless one of these writes fails on the socket
EveryPingAnswered ==
    (lastChat.op = "check_twitch_ping" /\ lastChat.read # <<>>) =>
        LET pongs  == {j \in DOMAIN lastChat.log : lastChat.log[j] = Ev("write", "PONG", "")}
            failed == \E j \in DOMAIN lastChat.log :
                          lastChat.log[j] = Ev("writefail", "PONG", "")
        IN  ~failed => Cardinality(pongs) = Cardinality(PingLines(lastChat.read))

\* C11 as stated: refreshes started concurrently are serialized, so that no
\* grant request ever carries a refresh token that an earlier successful grant
\* has already consumed
NoConsumedTokenSent == \A t \in Threads : ~thr[t].consumed

(***************************************************************************)
(* Properties of the chat history.                                         *)
(***************************************************************************)
Min(a, b) == IF a <= b THEN a ELSE b

\* the last n items of a sequence
LastN(q, n) == SubSeq(q, Len(q) - Min(Len(q), n) + 1, Len(q))

EveryChatLineAppended ==
    lastParse.op = "parse" =>
        Len(lastParse.appended) =
            Cardinality({j \in DOMAIN lastParse.data :
                            /\ lastParse.data[j].cmd = "PRIVMSG"
                            /\ lastParse.data[j].parts >= 3})

\* C14: validate_bot_token answers valid exactly when its request was sent
\* and answered 200; for 401, any other status, an empty token and a request
\* that raises it answers invalid
ValidOnlyOn200 ==
    lastVal.op = "validate_bot_token" =>
        /\ lastVal.valid <=> (lastVal.requested /\ lastVal.status = 200)
        /\ lastVal.token = 0 => ~lastVal.valid
        /\ (lastVal.requested /\ lastVal.status \in {0, 401}) => ~lastVal.valid

\* a request answered with a status other than 200 and 401
ValidationAnsweredOther ==
    /\ lastVal.op = "validate_bot_token"
    /\ lastVal.requested /\ lastVal.status \notin {0, 200, 401}
    /\ ~lastVal.valid

(***************************************************************************)
(* Specifications.                                                         *)
(***************************************************************************)
\* a specification takes the steps of one component, the others staying as they
\* are: SpecChat starts from the process as constructed, the others after
\* on_ready has started the loops
InitChatSpec  ==
    InitChat /\ InitPoll /\ TokenAt(Cred(1, 1, 1)) /\ loops = Idle /\ InitDash
InitPollSpec  ==
    /\ InitChatStarted /\ InitPoll /\ TokenAt(Cred(1, 1, 1)) /\ loops = Started
    /\ InitDash
InitDupSpec   ==
    /\ InitChatStarted /\ watchlist = <<"alice", "bob">>
    /\ (\E u \in Names : PollFresh(u)) /\ TokenAt(Cred(1, 1, 1))
    /\ loops = Started /\ InitDash
InitTokenSpec ==
    InitChatStarted /\ InitPoll /\ InitToken /\ loops = Started /\ InitDash
InitRaceSpec  ==
    /\ InitChatStarted /\ InitPoll /\ TokenAt(Cred(1, 1, 1)) /\ loops = Started
    /\ InitDash
InitCredSpec ==
    /\ InitChatStarted /\ InitPoll /\ TokenAt(Cred(1, 1, 1)) /\ loops = Started
    /\ InitDash
InitCaseSpec ==
    /\ InitChatStarted /\ InitPollCase /\ TokenAt(Cred(1, 1, 1)) /\ loops = Started
    /\ InitDash
InitHistorySpec ==
    /\ InitChatStarted /\ InitPoll /\ TokenAt(Cred(1, 1, 1)) /\ loops = Started
    /\ InitDash

SpecChat     == InitChatSpec /\ [][NextChat]_vars
SpecChatLive == InitChatSpec /\ [][NextChat]_vars /\ WF_vars(HealthyKeepAlive)
SpecPoll     == InitPollSpec /\ [][NextPoll({"last"})]_vars
SpecPollDup  == InitDupSpec /\ [][NextPoll({"dup"})]_vars
SpecPollRun  == InitPollSpec /\ [][NextPoll({"last", "run"})]_vars
SpecPollPrev == InitPollSpec /\ [][NextPoll({"last", "prev"})]_vars
SpecPollScen == InitPollSpec /\ [][NextPoll({"last", "scen"})]_vars
SpecPollCase == InitCaseSpec /\ [][NextPoll({"last"})]_vars
SpecPollTick == InitPollSpec /\ [][NextPollTick]_vars
SpecPollSteps == InitPollSpec /\ [][NextPollSteps]_vars
SpecConnect  == InitPollSpec /\ [][NextConnect]_vars
SpecToken    == InitTokenSpec /\ [][NextToken]_vars
SpecTokenRace == InitRaceSpec /\ [][NextRace]_vars
SpecCred     == InitCredSpec /\ [][NextCred]_vars
SpecHistory  == InitHistorySpec /\ [][NextHistory]_vars

====
